---- MODULE Spec2Model ----
(***************************************************************************)
(* TwitchClient (client-twitch/src/index.ts): the EventSub session manager *)
(* and notification pipeline.  One TwitchClient instance; every `await` of *)
(* a handler is a suspension point at which the handling of other frames   *)
(* may run.  A slot of `tasks` holds one invocation of the ws 'message'    *)
(* callback: suspended at an await, or completed (its record stays until   *)
(* the slot is taken by a later invocation).                               *)
(***************************************************************************)
EXTENDS Naturals, Integers, Sequences, FiniteSets, TLC

\* ------------------------------------------------------------ bounds
MaxInFlight == 2      \* message-callback invocations that have not completed, at most
MaxStarts == 1        \* calls of start() (sockets created)
MaxRestarts == 2      \* lifecycle run: further calls of start()
MaxMsgId == 1         \* distinct non-empty message ids whose calls are counted
MaxExtraIds == 2      \* ledger run: distinct message ids beyond the ledger's capacity
MaxSession == 2       \* distinct session ids carried by welcome frames
MaxCount == 2         \* the call counters saturate here

\* ------------------------------------------------- program constants
LedgerCapacity == 100

\* ------------------------------------------------------------ values
Absent == 0                       \* null / undefined / "" (all falsy in the code)
EmptyId == 0                      \* message_id missing or "" (evt?.message_id || "")
BotUserId == "bot"                \* cfg.TWITCH_BOT_USER_ID
Senders == {BotUserId, "u1"}      \* evt?.chatter_user_id || "unknown-user"
UserTexts == {"hi"}
ReplyTexts == {"hello!"}
EmptyText == ""
SessionIds == 1..MaxSession
TrackedIds == 1..MaxMsgId
Slots == 1..MaxInFlight
Sockets == 1..(MaxStarts + MaxRestarts)

VARIABLES
  ws,          \* this.ws: 0 = null, else the socket the handle refers to
  sock,        \* state of each WebSocket object created by start()
  sessionId,   \* this.sessionId (Absent = null/undefined)
  ledger,      \* this.lastProcessedMessageIds, in insertion order
  tasks,       \* the suspended (or last completed) message-callback invocations
  genCalls,    \* per tracked message id: Response Generator invocations
  sendCalls    \* per tracked message id: Outbound Sender POSTs issued

vars == <<ws, sock, sessionId, ledger, tasks, genCalls, sendCalls>>

\* ------------------------------------------------------------ helpers
Range(s) == {s[k] : k \in 1..Len(s)}

Bump(n) == IF n < MaxCount THEN n + 1 ELSE MaxCount

\* A slot that holds no invocation.
FreeTask ==
  [kind |-> "none", pc |-> "free", outcome |-> "", sid |-> Absent, bodySid |-> Absent,
   posts |-> 0, resp |-> "", msgId |-> EmptyId, sender |-> "", text |-> "", reply |-> "",
   accepted |-> FALSE, genResult |-> "", genLive |-> FALSE, late |-> "",
   processed |-> FALSE, afterSubFail |-> FALSE, sentOffline |-> FALSE,
   gens |-> 0, acts |-> 0, evals |-> 0, sends |-> 0, sentText |-> ""]

InFlight(i) == tasks[i].pc \notin {"free", "done"}

\* The slot a new invocation is parked in: the lowest one not in flight.
Available == {i \in Slots : ~InFlight(i)}
NextSlot == CHOOSE i \in Available : \A j \in Available : i <= j

Finish(t, how) == [t EXCEPT !.pc = "done", !.outcome = how]

\* ------------------------------------------------------ raw frames
\* A raw frame, by what JSON.parse and the field reads of the router make of it.
\*   json = "garbage"  : JSON.parse throws
\*   json = "null"     : parses to null
\*   json = "scalar"   : parses to a number, string or boolean
\*   json = "object"   : parses to an object; type = metadata?.message_type
Frame(json, type, sid, msgId, sender, text) ==
  [json |-> json, type |-> type, sid |-> sid, msgId |-> msgId, sender |-> sender,
   text |-> text]

MalformedFrames ==
  {Frame(j, "", Absent, EmptyId, "", "") : j \in {"garbage", "null", "scalar"}}
WelcomeFrames ==
  {Frame("object", "session_welcome", s, EmptyId, "", "") : s \in SessionIds \cup {Absent}}
KeepaliveFrames == {Frame("object", "session_keepalive", Absent, EmptyId, "", "")}
OtherFrames == {Frame("object", "session_reconnect", Absent, EmptyId, "", "")}
NotificationFrames ==
  {Frame("object", "notification", Absent, m, s, x) :
     m \in TrackedIds \cup {EmptyId}, s \in Senders, x \in UserTexts}
RawFrames ==
  MalformedFrames \cup WelcomeFrames \cup KeepaliveFrames \cup OtherFrames
    \cup NotificationFrames

\* JSON.parse(raw): does it return (TRUE) or throw (FALSE)
JSONParses(raw) == raw.json # "garbage"

\* data.metadata?.message_type: reading .metadata of null throws a TypeError
MessageTypeThrows(raw) == raw.json = "null"

\* (mutation of MessageType: every session_* type but the keepalive is taken for
\* a welcome)
MessageTypeLax(raw) ==
  IF raw.json # "object" THEN "undefined"
  ELSE IF raw.type = "session_reconnect" THEN "session_welcome" ELSE raw.type

MessageType(raw) == IF raw.json = "object" THEN raw.type ELSE "undefined"

\* ------------------------------------------------------ Dedup Ledger
\* this.lastProcessedMessageIds.has(messageId)
Seen(led, id) == id \in Range(led)

\* (mutation of Record: the id is not added)
RecordForgets(led, id) == led

\* (mutation of Record: nothing is evicted)
RecordKeepsAll(led, id) == IF id \in Range(led) THEN led ELSE Append(led, id)

\* (mutation of Record: above the capacity, the newest of the old entries goes)
RecordEvictsNewest(led, id) ==
  IF id \in Range(led) THEN led
  ELSE IF Len(led) >= LedgerCapacity
         THEN Append(SubSeq(led, 1, Len(led) - 1), id)
         ELSE Append(led, id)

\* lines 418-424: add, then drop the first key when the size exceeds the capacity
Record(led, id) ==
  LET added == IF Seen(led, id) THEN led ELSE Append(led, id)
  IN IF Len(added) > LedgerCapacity THEN Tail(added) ELSE added

\* (mutation of IsSelf: the guard compares with the bot's user name)
IsSelfByName(sender) == sender = "botname"

\* senderId === cfg.TWITCH_BOT_USER_ID
IsSelf(sender) == sender = BotUserId

\* (mutation of IsRepeat: the has() check is left out)
IsRepeatUnchecked(led, id) == FALSE

\* (mutation of IsRepeat: a notification without a message id counts as a repeat)
IsRepeatOrEmpty(led, id) == id = EmptyId \/ id \in Range(led)

\* (mutation of IsRepeat: an id older than the oldest entry counts as a repeat)
IsRepeatOrOlder(led, id) ==
  id # EmptyId /\ (id \in Range(led) \/ (led # <<>> /\ id < led[1]))

\* messageId && this.lastProcessedMessageIds.has(messageId)
IsRepeat(led, id) == id # EmptyId /\ Seen(led, id)

Init ==
  /\ ws = 0
  /\ sock = [s \in Sockets |-> "new"]
  /\ sessionId = Absent
  /\ ledger = <<>>
  /\ tasks = [i \in Slots |-> FreeTask]
  /\ genCalls = [m \in TrackedIds |-> 0]
  /\ sendCalls = [m \in TrackedIds |-> 0]

\* ------------------------------------------------ connection lifecycle
\* start(), from line 255 on: a new WebSocket, whose handlers are bound to this
\* instance.  (The awaits before it touch no state of the instance.)
OpenSocket(s) ==
  /\ sock[s] = "new"
  /\ \A r \in Sockets : r < s => sock[r] # "new"
  /\ ws' = s
  /\ sock' = [sock EXCEPT ![s] = "open"]
  /\ UNCHANGED <<sessionId, ledger, tasks, genCalls, sendCalls>>

Start == \E s \in 1..MaxStarts : OpenSocket(s)

\* (mutation of Stop: the socket is closed, the handle is kept)
StopKeepsHandle ==
  /\ IF ws # 0
       THEN sock' = [sock EXCEPT ![ws] = IF @ = "open" THEN "closing" ELSE @]
       ELSE UNCHANGED sock
  /\ UNCHANGED <<ws, sessionId, ledger, tasks, genCalls, sendCalls>>

\* (mutation of Stop: stopping also ends the invocations in flight)
StopAborts ==
  /\ IF ws # 0
       THEN /\ sock' = [sock EXCEPT ![ws] = IF @ = "open" THEN "closing" ELSE @]
            /\ ws' = 0
       ELSE UNCHANGED <<ws, sock>>
  /\ tasks' = [i \in Slots |->
                 IF tasks[i].pc \in {"free", "done"} THEN tasks[i]
                 ELSE [tasks[i] EXCEPT !.pc = "done", !.outcome = "aborted"]]
  /\ UNCHANGED <<sessionId, ledger, genCalls, sendCalls>>

\* stop(): closes the socket the handle refers to, clears the handle
Stop ==
  /\ IF ws # 0
       THEN /\ sock' = [sock EXCEPT ![ws] = IF @ = "open" THEN "closing" ELSE @]
            /\ ws' = 0
       ELSE UNCHANGED <<ws, sock>>
  /\ UNCHANGED <<sessionId, ledger, tasks, genCalls, sendCalls>>

\* the ws 'error' handler of socket s: the error is logged
OnError(s) ==
  /\ sock[s] \in {"open", "closing"}
  /\ UNCHANGED vars

\* (mutation of OnClose: the handler also forgets the session)
OnCloseClearsSession(s) ==
  /\ sock[s] \in {"open", "closing"}
  /\ sock' = [sock EXCEPT ![s] = "closed"]
  /\ ws' = 0
  /\ sessionId' = Absent
  /\ UNCHANGED <<ledger, tasks, genCalls, sendCalls>>

\* (mutation of OnClose: the handler opens the next connection itself)
OnCloseReconnects(s) ==
  /\ sock[s] \in {"open", "closing"}
  /\ \E r \in Sockets :
       /\ sock[r] = "new"
       /\ \A q \in Sockets : q < r => sock[q] # "new"
       /\ sock' = [sock EXCEPT ![s] = "closed", ![r] = "open"]
       /\ ws' = r
  /\ UNCHANGED <<sessionId, ledger, tasks, genCalls, sendCalls>>

\* the ws 'close' handler of socket s
OnClose(s) ==
  /\ sock[s] \in {"open", "closing"}
  /\ sock' = [sock EXCEPT ![s] = "closed"]
  /\ ws' = 0
  /\ UNCHANGED <<sessionId, ledger, tasks, genCalls, sendCalls>>

\* ---------------------------------------------------------- the router
\* What the router reads of a frame: the parse failure, or the message type.
FrameKind(raw) == IF raw.json = "object" THEN raw.type ELSE raw.json

\* The subscription for the live session id was refused: the invocation of a
\* welcome frame has ended on a non-2xx response to the POST it made for it.
SubscriptionRefused ==
  \E w \in Slots :
    /\ tasks[w].kind = "session_welcome" /\ tasks[w].pc = "done"
    /\ tasks[w].resp = "non_ok" /\ tasks[w].bodySid = sessionId

\* The invocation of the message callback for raw, as it enters the router.
\* (afterSubFail notes what the instance knew when the frame arrived.)
NewTask(raw) ==
  [FreeTask EXCEPT !.kind = FrameKind(raw), !.pc = "router", !.sid = raw.sid,
                   !.msgId = raw.msgId, !.sender = raw.sender, !.text = raw.text,
                   !.afterSubFail = (FrameKind(raw) = "notification" /\ SubscriptionRefused)]

\* (mutation of SubscribeToChat: a welcome frame with a session id is taken as
\* subscribed already)
SubscribeSkipped(t, sess) ==
  IF sess = Absent THEN Finish(t, "uncaught") ELSE Finish(t, "subscribed")

\* subscribeToChat(), up to its first await: line 344 reads the live this.sessionId
SubscribeToChat(t, sess) ==
  IF sess = Absent THEN Finish(t, "uncaught") ELSE [t EXCEPT !.pc = "sub_cfg"]

\* handleNotification(data), up to its first await (line 406)
HandleNotification(t) == [t EXCEPT !.pc = "hn_cfg"]

\* handleWebSocketMessage(raw), up to the first suspension (or to its end)
HandleWebSocketMessage(raw) ==
  LET t == NewTask(raw) IN
  /\ Available # {}
  /\ IF ~JSONParses(raw)
       THEN /\ tasks' = [tasks EXCEPT ![NextSlot] = Finish(t, "dropped")]
            /\ UNCHANGED sessionId
       ELSE IF MessageTypeThrows(raw)
         THEN /\ tasks' = [tasks EXCEPT ![NextSlot] = Finish(t, "uncaught")]
              /\ UNCHANGED sessionId
         ELSE IF MessageType(raw) = "session_welcome"
           THEN /\ sessionId' = raw.sid
                /\ tasks' = [tasks EXCEPT ![NextSlot] = SubscribeToChat(t, sessionId')]
           ELSE IF MessageType(raw) = "session_keepalive"
             THEN /\ tasks' = [tasks EXCEPT ![NextSlot] = Finish(t, "keepalive")]
                  /\ UNCHANGED sessionId
             ELSE IF MessageType(raw) = "notification"
               THEN /\ tasks' = [tasks EXCEPT ![NextSlot] = HandleNotification(t)]
                    /\ UNCHANGED sessionId
               ELSE /\ tasks' = [tasks EXCEPT ![NextSlot] = Finish(t, "unhandled")]
                    /\ UNCHANGED sessionId
  /\ UNCHANGED <<ws, sock, ledger, genCalls, sendCalls>>

\* some socket of this instance is still delivering frames
Connected == \E s \in Sockets : sock[s] \in {"open", "closing"}

\* the ws 'message' handler
OnMessage ==
  /\ Connected
  /\ \E raw \in RawFrames : HandleWebSocketMessage(raw)

\* ------------------------------------------------- resumed invocations
\* The awaits whose awaited call may reject (every one but the race of line 207,
\* whose rejection generateResponseWithLogs catches itself).
ThrowingAwaits ==
  {"hn_cfg", "um_cfg", "um_mem", "um_reply", "um_update", "um_actions", "um_eval",
   "send_cfg", "send_fetch", "send_errtxt", "sub_cfg", "sub_fetch"}

\* (mutation of RouterCatch: the notification branch awaits without a .catch)
RouterRethrows(t) == Finish(t, "uncaught")

\* Where a rejection inside the handling ends: the notification branch has a
\* .catch (lines 332-334), the welcome branch awaits subscribeToChat bare (327).
RouterCatch(t) ==
  IF t.kind = "notification" THEN Finish(t, "caught") ELSE Finish(t, "uncaught")

\* (mutation of AwaitRejects: the rejection ends every invocation in flight)
AwaitRejectsAll(i) ==
  /\ tasks[i].pc \in ThrowingAwaits
  /\ tasks' = [j \in Slots |->
                 IF tasks[j].pc \notin {"free", "done"} THEN RouterCatch(tasks[j])
                                                       ELSE tasks[j]]
  /\ UNCHANGED <<ws, sock, sessionId, ledger, genCalls, sendCalls>>

\* the awaited call of invocation i rejects
AwaitRejects(i) ==
  /\ tasks[i].pc \in ThrowingAwaits
  /\ tasks' = [tasks EXCEPT ![i] = RouterCatch(@)]
  /\ UNCHANGED <<ws, sock, sessionId, ledger, genCalls, sendCalls>>

\* subscribeToChat, lines 347-367: the body is built from the live this.sessionId
\* and the POST is issued
SubscriptionSessionId(t, sess) == sess

BuildAndPost(i) ==
  /\ tasks[i].pc = "sub_cfg"
  /\ tasks' = [tasks EXCEPT ![i] =
       [@ EXCEPT !.pc = "sub_fetch", !.posts = @ + 1,
                 !.bodySid = SubscriptionSessionId(tasks[i], sessionId)]]
  /\ UNCHANGED <<ws, sock, sessionId, ledger, genCalls, sendCalls>>

\* subscribeToChat, lines 367-383: the POST's response arrives
SubscribeResponse(i) ==
  /\ tasks[i].pc = "sub_fetch"
  /\ \E ok \in BOOLEAN :
       tasks' = [tasks EXCEPT ![i] =
         IF ok THEN Finish(@, "subscribed")
               ELSE [@ EXCEPT !.pc = "sub_errtxt", !.resp = "non_ok"]]
  /\ UNCHANGED <<ws, sock, sessionId, ledger, genCalls, sendCalls>>

\* (mutation of SubscribeFails: the refused registration is tried again)
SubscribeRetries(i) ==
  /\ tasks[i].pc = "sub_errtxt"
  /\ tasks' = [tasks EXCEPT ![i] = [@ EXCEPT !.pc = "sub_cfg"]]
  /\ UNCHANGED <<ws, sock, sessionId, ledger, genCalls, sendCalls>>

\* subscribeToChat, lines 378-380: resp.text() settles, the error is thrown
SubscribeFails(i) ==
  /\ tasks[i].pc = "sub_errtxt"
  /\ tasks' = [tasks EXCEPT ![i] = RouterCatch(@)]
  /\ UNCHANGED <<ws, sock, sessionId, ledger, genCalls, sendCalls>>

\* (mutation of GuardAndDedup: the dedup step comes first, the guard after it)
DedupAndGuard(i) ==
  LET t == tasks[i] IN
  /\ t.pc = "hn_cfg"
  /\ IF IsRepeat(ledger, t.msgId)
       THEN /\ tasks' = [tasks EXCEPT ![i] = Finish(t, "repeat")]
            /\ UNCHANGED ledger
       ELSE /\ ledger' = IF t.msgId # EmptyId THEN Record(ledger, t.msgId) ELSE ledger
            /\ tasks' = [tasks EXCEPT ![i] =
                 IF IsSelf(t.sender) THEN Finish(t, "self")
                 ELSE [t EXCEPT !.pc = "um_cfg", !.accepted = TRUE]]
  /\ UNCHANGED <<ws, sock, sessionId, genCalls, sendCalls>>

\* handleNotification, lines 407-428, and onUserMessage up to its first await
GuardAndDedup(i) ==
  LET t == tasks[i] IN
  /\ t.pc = "hn_cfg"
  /\ IF IsSelf(t.sender)
       THEN /\ tasks' = [tasks EXCEPT ![i] = Finish(t, "self")]
            /\ UNCHANGED ledger
       ELSE IF IsRepeat(ledger, t.msgId)
         THEN /\ tasks' = [tasks EXCEPT ![i] = Finish(t, "repeat")]
              /\ UNCHANGED ledger
         ELSE /\ ledger' = IF t.msgId # EmptyId THEN Record(ledger, t.msgId) ELSE ledger
              /\ tasks' = [tasks EXCEPT ![i] = [t EXCEPT !.pc = "um_cfg", !.accepted = TRUE]]
  /\ UNCHANGED <<ws, sock, sessionId, genCalls, sendCalls>>

\* onUserMessage, lines 443-457: the user memory is built
CreateUserMemory(i) ==
  /\ tasks[i].pc = "um_cfg"
  /\ tasks' = [tasks EXCEPT ![i] = [@ EXCEPT !.pc = "um_mem"]]
  /\ UNCHANGED <<ws, sock, sessionId, ledger, genCalls, sendCalls>>

Count(calls, id) == IF id \in TrackedIds THEN [calls EXCEPT ![id] = Bump(@)] ELSE calls

\* onUserMessage, lines 457-472 (addEmbeddingToMemory, createMemory, composeState
\* have settled), and generateResponseWithLogs to its race: the generator is invoked
InvokeGenerator(i) ==
  /\ tasks[i].pc = "um_mem"
  /\ tasks' = [tasks EXCEPT ![i] =
       [@ EXCEPT !.pc = "um_gen", !.gens = @ + 1, !.genLive = TRUE]]
  /\ genCalls' = Count(genCalls, tasks[i].msgId)
  /\ UNCHANGED <<ws, sock, sessionId, ledger, sendCalls>>

\* What the race of line 207 settles with.  "text": the generator resolved with a
\* non-empty text; "empty": with an empty or missing text; "null": with null or
\* undefined; "rejected": it rejected; "timeout": the timer rejected first.
GenResults == {"text", "empty", "null", "rejected", "timeout"}

\* (mutation of ReplyText: whatever the generator call delivers is used, also
\* after the timer has fired)
ReplyTextOfAnyResult(result, text) == IF result \in {"text", "timeout", "rejected"} THEN text ELSE EmptyText

\* generateResponseWithLogs, lines 205-220: the text of the Content it returns
ReplyText(result, text) == IF result = "text" THEN text ELSE EmptyText

\* (mutation of HasReply: the guard tests the Content object, not its text)
HasReplyObject(text) == TRUE

\* onUserMessage, line 473: !replyContent.text
HasReply(text) == text # EmptyText

\* onUserMessage, lines 472-489: the race settles; empty-text guard
GeneratorSettles(i) ==
  /\ tasks[i].pc = "um_gen"
  /\ \E result \in GenResults, text \in ReplyTexts :
       LET t == [tasks[i] EXCEPT !.genResult = result,
                                 !.genLive = (result = "timeout"),
                                 !.reply = ReplyText(result, text)]
       IN tasks' = [tasks EXCEPT ![i] =
            IF HasReply(t.reply) THEN [t EXCEPT !.pc = "um_reply"]
                                 ELSE Finish(t, "no_reply")]
  /\ UNCHANGED <<ws, sock, sessionId, ledger, genCalls, sendCalls>>

\* the generator call abandoned by a timeout resolves (or rejects) later: the race
\* of line 207 has settled already, nothing of the pipeline runs
AbandonedCallSettles(i) ==
  /\ tasks[i].pc = "done"
  /\ tasks[i].genLive
  /\ \E how \in {"text", "rejected"} :
       tasks' = [tasks EXCEPT ![i] = [@ EXCEPT !.genLive = FALSE, !.late = how]]
  /\ UNCHANGED <<ws, sock, sessionId, ledger, genCalls, sendCalls>>

\* onUserMessage, lines 489-495: the agent memory is stored, the user message is
\* marked processed
MarkProcessed(i) ==
  /\ tasks[i].pc = "um_reply"
  /\ tasks' = [tasks EXCEPT ![i] = [@ EXCEPT !.pc = "um_update", !.processed = TRUE]]
  /\ UNCHANGED <<ws, sock, sessionId, ledger, genCalls, sendCalls>>

\* (mutation of ProcessActions: the hooks are started but not awaited)
ProcessActionsDetached(i) ==
  /\ tasks[i].pc = "um_update"
  /\ tasks' = [tasks EXCEPT ![i] = [@ EXCEPT !.pc = "send_cfg", !.acts = @ + 1]]
  /\ UNCHANGED <<ws, sock, sessionId, ledger, genCalls, sendCalls>>

\* onUserMessage, lines 495-503: the state is filtered, processActions is called
ProcessActions(i) ==
  /\ tasks[i].pc = "um_update"
  /\ tasks' = [tasks EXCEPT ![i] = [@ EXCEPT !.pc = "um_actions", !.acts = @ + 1]]
  /\ UNCHANGED <<ws, sock, sessionId, ledger, genCalls, sendCalls>>

\* onUserMessage, line 507: evaluate is called
Evaluate(i) ==
  /\ tasks[i].pc = "um_actions"
  /\ tasks' = [tasks EXCEPT ![i] = [@ EXCEPT !.pc = "um_eval", !.evals = @ + 1]]
  /\ UNCHANGED <<ws, sock, sessionId, ledger, genCalls, sendCalls>>

\* onUserMessage, line 510, and sendTwitchMessage to its first await (518)
CallSend(i) ==
  /\ tasks[i].pc = "um_eval"
  /\ tasks' = [tasks EXCEPT ![i] = [@ EXCEPT !.pc = "send_cfg"]]
  /\ UNCHANGED <<ws, sock, sessionId, ledger, genCalls, sendCalls>>

\* (mutation of MessageBody: the reply is decorated before it is sent)
MessageBodyDecorated(text) == IF text = EmptyText THEN text ELSE "@u1 hello!"

\* sendTwitchMessage, lines 531-534: the message of the request body
MessageBody(text) == text

\* sendTwitchMessage, lines 519-535: the POST to the chat-messages endpoint
SendPost(i) ==
  /\ tasks[i].pc = "send_cfg"
  /\ tasks' = [tasks EXCEPT ![i] =
       [@ EXCEPT !.pc = "send_fetch", !.sends = @ + 1,
                 !.sentText = MessageBody(tasks[i].reply),
                 !.sentOffline = ~Connected]]
  /\ sendCalls' = Count(sendCalls, tasks[i].msgId)
  /\ UNCHANGED <<ws, sock, sessionId, ledger, genCalls>>

\* sendTwitchMessage, lines 537-542: the response arrives
SendResponse(i) ==
  /\ tasks[i].pc = "send_fetch"
  /\ \E ok \in BOOLEAN :
       tasks' = [tasks EXCEPT ![i] =
         IF ok THEN Finish(@, "sent") ELSE [@ EXCEPT !.pc = "send_errtxt"]]
  /\ UNCHANGED <<ws, sock, sessionId, ledger, genCalls, sendCalls>>

\* (mutation of SendFailureLogged: the refused message is posted again)
SendFailureRetried(i) ==
  /\ tasks[i].pc = "send_errtxt"
  /\ tasks' = [tasks EXCEPT ![i] = [@ EXCEPT !.pc = "send_cfg"]]
  /\ UNCHANGED <<ws, sock, sessionId, ledger, genCalls, sendCalls>>

\* (mutation of SendFailureLogged: a refused send takes the id out of the ledger)
SendFailureRollsBack(i) ==
  /\ tasks[i].pc = "send_errtxt"
  /\ tasks' = [tasks EXCEPT ![i] = Finish(@, "send_failed")]
  /\ ledger' = SelectSeq(ledger, LAMBDA m : m # tasks[i].msgId)
  /\ UNCHANGED <<ws, sock, sessionId, genCalls, sendCalls>>

\* sendTwitchMessage, lines 538-539: the error text is read and logged
SendFailureLogged(i) ==
  /\ tasks[i].pc = "send_errtxt"
  /\ tasks' = [tasks EXCEPT ![i] = Finish(@, "send_failed")]
  /\ UNCHANGED <<ws, sock, sessionId, ledger, genCalls, sendCalls>>

\* one step of the subscription of a welcome frame
WelcomeStep(i) == BuildAndPost(i) \/ SubscribeResponse(i) \/ SubscribeFails(i)

\* one step of the pipeline of a notification frame
PipelineStep(i) ==
  \/ GuardAndDedup(i)
  \/ CreateUserMemory(i)
  \/ InvokeGenerator(i)
  \/ GeneratorSettles(i)
  \/ AbandonedCallSettles(i)
  \/ MarkProcessed(i)
  \/ ProcessActions(i)
  \/ Evaluate(i)
  \/ CallSend(i)
  \/ SendPost(i)
  \/ SendResponse(i)
  \/ SendFailureLogged(i)

Next ==
  \/ Start
  \/ OnMessage
  \/ \E i \in Slots : WelcomeStep(i)
  \/ \E i \in Slots : PipelineStep(i)
  \/ \E i \in Slots : AwaitRejects(i)
  \/ Stop
  \/ \E s \in Sockets : OnClose(s)
  \/ \E s \in Sockets : OnError(s)

Spec == Init /\ [][Next]_vars

\* ------------------------------------------------------- the ledger run
\* Notifications handled one after the other, their message ids numbered in the
\* order of first use, so that the ledger fills up to its capacity and beyond.
\* A notification carries the next unused id, or repeats the first id of the run
\* (the one id of the run whose generator calls and sends are counted).
Max(S) == CHOOSE x \in S : \A y \in S : y <= x

LedgerId(n) == MaxMsgId + n - 1

NextFreshId == IF ledger = <<>> THEN LedgerId(1) ELSE Max(Range(ledger)) + 1

InOrderIds ==
  {m \in {LedgerId(1), NextFreshId} : m <= LedgerId(LedgerCapacity + MaxExtraIds)}

InOrderFrames ==
  {Frame("object", "notification", Absent, m, s, x) :
     m \in InOrderIds, s \in Senders, x \in UserTexts}

OnMessageInOrder ==
  /\ Connected
  /\ \A i \in Slots : ~InFlight(i)
  /\ \E raw \in InOrderFrames : HandleWebSocketMessage(raw)

NextLedger ==
  \/ Start
  \/ OnMessageInOrder
  \/ \E i \in Slots : AwaitRejects(i)
  \/ \E i \in Slots : PipelineStep(i)

SpecLedger == Init /\ [][NextLedger]_vars

\* ---------------------------------------------------- the lifecycle run
\* start() called again - after stop(), after a close, or on a started
\* instance - with the frames whose handling completes at once: keepalives, and
\* the server's request to reconnect (a message type the router does not handle).
StartAgain == \E s \in Sockets : s > MaxStarts /\ OpenSocket(s)

LifecycleFrames == KeepaliveFrames \cup OtherFrames

OnMessageLifecycle ==
  /\ Connected
  /\ \E raw \in LifecycleFrames : HandleWebSocketMessage(raw)

NextLifecycle ==
  \/ Start
  \/ StartAgain
  \/ OnMessageLifecycle
  \/ Stop
  \/ \E s \in Sockets : OnClose(s)
  \/ \E s \in Sockets : OnError(s)

SpecLifecycle == Init /\ [][NextLifecycle]_vars

\* ------------------------------------------------------- the trace run
\* One welcome frame with the first session id, followed by deliveries of one
\* and the same notification frame (message id 1, sender u1, text "hi").
TraceWelcome == Frame("object", "session_welcome", 1, EmptyId, "", "")
TraceNotification == Frame("object", "notification", Absent, 1, "u1", "hi")

OnMessageTrace ==
  /\ Connected
  /\ \/ sessionId = Absent /\ HandleWebSocketMessage(TraceWelcome)
     \/ sessionId # Absent /\ HandleWebSocketMessage(TraceNotification)

NextTrace ==
  \/ Start
  \/ OnMessageTrace
  \/ \E i \in Slots : WelcomeStep(i)
  \/ \E i \in Slots : PipelineStep(i)
  \/ \E i \in Slots : AwaitRejects(i)

SpecTrace == Init /\ [][NextTrace]_vars

\* ================================================================ claims
IsNotification(i) == tasks[i].kind = "notification"
IsWelcome(i) == tasks[i].kind = "session_welcome"
Done(i) == tasks[i].pc = "done"

\* C1: two notifications with the same non-empty messageId, one after the other,
\* invoke the Response Generator once: no id is generated for twice, an accepted
\* invocation that has yet to call the generator is the only one for its id, and an
\* invocation dropped as a repeat has not entered onUserMessage; the accepted one,
\* unless an exception ended it, has invoked the generator exactly once.
C1_OneGenerationPerId ==
  /\ \A m \in TrackedIds : genCalls[m] <= 1
  /\ \A i \in Slots :
       /\ (IsNotification(i) /\ tasks[i].msgId \in TrackedIds /\ tasks[i].accepted
             /\ InFlight(i) /\ tasks[i].gens = 0)
            => genCalls[tasks[i].msgId] = 0
       /\ tasks[i].outcome = "repeat" =>
            ~tasks[i].accepted /\ tasks[i].gens = 0 /\ tasks[i].msgId # EmptyId
       /\ (IsNotification(i) /\ tasks[i].msgId \in TrackedIds /\ tasks[i].accepted
             /\ Done(i) /\ tasks[i].outcome # "caught")
            => tasks[i].gens = 1 /\ genCalls[tasks[i].msgId] = 1

C1_Witness ==
  \E i, j \in Slots, m \in TrackedIds :
    /\ i # j
    /\ IsNotification(i) /\ tasks[i].msgId = m /\ tasks[i].outcome = "sent"
    /\ IsNotification(j) /\ tasks[j].msgId = m /\ tasks[j].outcome = "repeat"
    /\ genCalls[m] = 1

\* C2: of two invocations of handleNotification for the same non-empty messageId
\* that are in flight together, at most one passes the dedup check, whatever the
\* interleaving at the awaits.
C2_NoDoublePass ==
  \A i, j \in Slots :
    (i # j /\ tasks[i].accepted /\ tasks[j].accepted
       /\ tasks[i].msgId = tasks[j].msgId)
      => tasks[i].msgId = EmptyId

C2_Witness ==
  \E i, j \in Slots :
    /\ i # j
    /\ tasks[i].accepted /\ InFlight(i) /\ tasks[i].msgId \in TrackedIds
    /\ IsNotification(j) /\ tasks[j].msgId = tasks[i].msgId
    /\ tasks[j].outcome = "repeat"

\* C3: a notification sent by the bot's own user id never reaches the Response
\* Generator or the Outbound Sender, whatever its messageId.
C3_SelfNeverGenerated ==
  \A i \in Slots :
    (IsNotification(i) /\ tasks[i].sender = BotUserId)
      => /\ ~tasks[i].accepted
         /\ tasks[i].gens = 0
         /\ tasks[i].sends = 0
         /\ tasks[i].pc \in {"hn_cfg", "done"}

C3_Witness ==
  \E i \in Slots :
    /\ IsNotification(i) /\ tasks[i].sender = BotUserId
    /\ tasks[i].msgId \in TrackedIds
    /\ tasks[i].outcome = "self"

\* C4: the Dedup Ledger never holds more than 100 identifiers (and none twice);
\* when the 101st distinct identifier has just been recorded, exactly the one
\* recorded first is gone: the ledger holds the 2nd to the 101st, in order.
C4_LedgerBounded ==
  /\ Len(ledger) <= LedgerCapacity
  /\ \A k, l \in 1..Len(ledger) : ledger[k] = ledger[l] => k = l
  /\ (ledger # <<>> /\ ledger[Len(ledger)] = LedgerId(LedgerCapacity + 1))
       => /\ ledger = [k \in 1..LedgerCapacity |-> LedgerId(k + 1)]
          /\ ~Seen(ledger, LedgerId(1))

C4_Witness ==
  /\ Len(ledger) = LedgerCapacity
  /\ ledger[Len(ledger)] = LedgerId(LedgerCapacity + 1)
  /\ ledger[1] = LedgerId(2)
  /\ \A i \in Slots : ~InFlight(i)

\* C5: when the race for the generator's result ends by the timeout or by a
\* rejection, the Outbound Sender is not called for that notification, no hook runs,
\* and the invocation completes without an exception - also once the abandoned
\* call has resolved with a text.
C5_NoSendAfterTimeout ==
  \A i \in Slots :
    tasks[i].genResult \in {"timeout", "rejected"}
      => /\ tasks[i].sends = 0
         /\ tasks[i].acts = 0 /\ tasks[i].evals = 0
         /\ Done(i) /\ tasks[i].outcome = "no_reply"
         /\ tasks[i].reply = EmptyText

C5_Witness ==
  \E i \in Slots :
    /\ IsNotification(i) /\ tasks[i].genResult = "timeout"
    /\ ~tasks[i].genLive /\ tasks[i].late = "text"
    /\ Done(i) /\ tasks[i].sends = 0

\* C6: when the generator resolves with an empty reply text (or with no Content),
\* the pipeline stops there: nothing is marked processed, neither hook runs, the
\* Outbound Sender is not called; so every POST of the Outbound Sender carries a
\* non-empty message.
C6_EmptyReplyAborts ==
  \A i \in Slots :
    /\ tasks[i].genResult \in {"empty", "null"}
         => /\ tasks[i].sends = 0 /\ tasks[i].acts = 0 /\ tasks[i].evals = 0
            /\ ~tasks[i].processed
            /\ Done(i) /\ tasks[i].outcome = "no_reply"
    /\ tasks[i].sends > 0
         => tasks[i].sentText # EmptyText /\ tasks[i].genResult = "text"
    /\ tasks[i].acts > 0 => tasks[i].reply # EmptyText

C6_Witness ==
  \E i, j \in Slots :
    /\ IsNotification(i) /\ tasks[i].genResult = "empty" /\ Done(i)
    /\ IsNotification(j) /\ tasks[j].sends = 1 /\ tasks[j].sentText \in ReplyTexts

\* C7: the subscription request that follows a welcome frame with session id s
\* has transport.session_id = s, in every interleaving of the frame handlers.
C7_RequestCarriesWelcomeId ==
  \A i \in Slots :
    (IsWelcome(i) /\ tasks[i].posts > 0) => tasks[i].bodySid = tasks[i].sid

\* C8: no subscription POST is issued without a session id, and a welcome frame
\* that carries none ends in an error without a POST.
C8_NeverSubscribesWithoutSession ==
  \A i \in Slots :
    IsWelcome(i) =>
      /\ tasks[i].posts > 0 => tasks[i].bodySid # Absent
      /\ tasks[i].sid = Absent =>
           tasks[i].posts = 0 /\ Done(i) /\ tasks[i].outcome = "uncaught"

\* C9: an exception in the handling of a notification is caught at the router:
\* the message callback's invocation never ends in a rejection, and the step in
\* which the exception is caught leaves the connection handle and the socket alone.
C9_NotificationErrorsCaught ==
  /\ [](\A i \in Slots : IsNotification(i) => tasks[i].outcome # "uncaught")
  /\ [][\A i \in Slots :
          (IsNotification(i) /\ InFlight(i) /\ tasks'[i].outcome = "caught")
            => UNCHANGED <<ws, sock, sessionId, ledger>>]_vars

C9_Witness ==
  \E i \in Slots :
    /\ IsNotification(i) /\ tasks[i].outcome = "caught" /\ tasks[i].sends = 1
    /\ ws # 0 /\ sock[ws] = "open"

\* C10: a raw frame that is no structured frame object (unparseable text, or text
\* that parses to null or to a scalar) is dropped without an error reaching the
\* transport's message callback.
C10_MalformedDropped ==
  \A i \in Slots :
    tasks[i].kind \in {"garbage", "null", "scalar"}
      => Done(i) /\ tasks[i].outcome # "uncaught"

\* C11: a non-2xx response to the subscription POST ends the handling of the
\* welcome frame in an error that leaves the message callback (no handler in
\* between absorbs it), and the POST is not repeated: a welcome frame causes at
\* most one subscription POST.
C11_SubscribeFailureRaisedOnce ==
  \A i \in Slots :
    IsWelcome(i) =>
      /\ tasks[i].posts <= 1
      /\ tasks[i].resp = "non_ok" =>
           /\ tasks[i].posts = 1
           /\ tasks[i].pc = "sub_errtxt" \/ (Done(i) /\ tasks[i].outcome = "uncaught")

C11_Witness ==
  \E i \in Slots :
    /\ IsWelcome(i) /\ tasks[i].resp = "non_ok" /\ tasks[i].posts = 1
    /\ Done(i) /\ tasks[i].outcome = "uncaught"

\* C12: once the subscription for the live session has been refused, no
\* notification frame that arrives afterwards is accepted into the pipeline
\* while the connection is still held open.
C12_NoProcessingWithoutSubscription ==
  \A i \in Slots :
    ~(/\ IsNotification(i) /\ tasks[i].afterSubFail /\ tasks[i].accepted
      /\ ws # 0 /\ sock[ws] = "open")

\* C13: an accepted notification invokes the Response Generator at most once and
\* the Outbound Sender at most once: after a generation timeout the generator is
\* not invoked again, after a refused send the message is not posted again.
C13_AtMostOneReply ==
  \A i \in Slots :
    /\ tasks[i].gens <= 1 /\ tasks[i].sends <= 1
    /\ tasks[i].gens + tasks[i].sends > 0 => IsNotification(i) /\ tasks[i].accepted
    /\ tasks[i].genResult = "timeout" => tasks[i].gens = 1 /\ Done(i)
    /\ tasks[i].pc = "send_errtxt" => tasks[i].sends = 1
    /\ tasks[i].outcome = "send_failed" => tasks[i].sends = 1 /\ tasks[i].gens = 1

C13_Witness ==
  \E i, j \in Slots :
    /\ tasks[i].accepted /\ tasks[i].outcome = "send_failed" /\ tasks[i].sends = 1
    /\ tasks[j].accepted /\ tasks[j].genResult = "timeout" /\ tasks[j].gens = 1
    /\ Done(j)

\* C14: an id in the Dedup Ledger stays in it over every step, unless the step
\* records a new id into the full ledger and the id is the oldest one; so while
\* the ledger is not full, every accepted id is seen - whether its pipeline is
\* in flight or has ended in a timeout, an empty reply, an exception or a refused
\* send, and whether or not the transport has closed - and an invocation dropped
\* as a repeat finds its id in the ledger.
C14_RecordedStaysSeen ==
  /\ [][\A m \in Range(ledger) :
          \/ Seen(ledger', m)
          \/ /\ Len(ledger) = LedgerCapacity /\ m = ledger[1]
             /\ Len(ledger') = LedgerCapacity /\ ~Seen(ledger, ledger'[Len(ledger')])]_vars
  /\ [](\A i \in Slots :
          (IsNotification(i) /\ tasks[i].msgId # EmptyId
             /\ (tasks[i].accepted \/ tasks[i].outcome = "repeat"))
            => Seen(ledger, tasks[i].msgId) \/ Len(ledger) = LedgerCapacity)

C14_Witness ==
  \E i, j \in Slots, m \in TrackedIds :
    /\ IsNotification(i) /\ tasks[i].msgId = m /\ tasks[i].outcome = "send_failed"
    /\ IsNotification(j) /\ tasks[j].msgId = m /\ tasks[j].outcome = "repeat"
    /\ ws = 0 /\ sock[1] = "closed" /\ ~Connected
    /\ Seen(ledger, m)

\* C15: the step of a close event leaves the connection reference cleared, and
\* no step but a call of start() opens a connection or sets the reference: after
\* a close the handle stays absent, and nothing is connected that was not
\* connected before, until start() is called again.
C15_NoReconnectAfterClose ==
  [][/\ \A s \in Sockets :
          (sock[s] \in {"open", "closing"} /\ sock'[s] = "closed") => ws' = 0
     /\ (\E s \in Sockets : sock[s] # "open" /\ sock'[s] = "open")
          => (Start \/ StartAgain)
     /\ (ws' # 0 /\ ws' # ws) => (Start \/ StartAgain)]_vars

C15_Witness ==
  /\ sock[1] = "closed" /\ sock[2] = "closed" /\ sock[3] = "new"
  /\ ws = 0
  /\ \E i \in Slots : tasks[i].kind = "session_reconnect" /\ tasks[i].outcome = "unhandled"

\* C16: the step in which the pipeline of one notification fails (an exception
\* caught at the router, a timeout or an empty reply, a refused send) changes
\* neither the connection handle, nor a socket, nor the session id, nor anything
\* of another invocation; and a pipeline in flight is never blocked: its own
\* next step can always be taken, whatever the other invocations have done.
C16_FailuresIsolated ==
  /\ [][\A i \in Slots :
          (IsNotification(i) /\ InFlight(i) /\ tasks'[i].pc = "done"
             /\ tasks'[i].outcome \in {"caught", "no_reply", "send_failed"})
            => /\ UNCHANGED <<ws, sock, sessionId>>
               /\ \A j \in Slots \ {i} : tasks'[j] = tasks[j]]_vars
  /\ [](\A j \in Slots :
          (IsNotification(j) /\ InFlight(j)) => ENABLED PipelineStep(j))

C16_Witness ==
  \E i, j \in Slots :
    /\ IsNotification(i) /\ tasks[i].accepted /\ tasks[i].outcome = "caught"
    /\ IsNotification(j) /\ tasks[j].accepted /\ tasks[j].outcome = "sent"
    /\ tasks[j].sends = 1 /\ tasks[j].sentText \in ReplyTexts
    /\ ws # 0 /\ sock[ws] = "open" /\ sessionId # Absent

\* C17: in the trace run - a welcome frame with session id 1, then the
\* notification (message id 1, sender u1, text "hi") delivered any number of
\* times - the subscription POST carries session id 1; the generator is invoked
\* at most once, and exactly once by the delivery that gets as far; the text the
\* generator returns is the message the Outbound Sender posts, unchanged, in
\* exactly one POST; and every other delivery is dropped as a repeat without a
\* generation or a send, so the count of sends stays at 1.
C17_EndToEndTrace ==
  /\ genCalls[1] <= 1 /\ sendCalls[1] <= 1
  /\ \A i \in Slots :
       /\ IsWelcome(i) =>
            /\ tasks[i].sid = 1
            /\ tasks[i].pc \in {"sub_fetch", "sub_errtxt"} \/ tasks[i].outcome = "subscribed"
                 => tasks[i].posts = 1 /\ tasks[i].bodySid = 1
       /\ IsNotification(i) =>
            /\ tasks[i].text = "hi" /\ tasks[i].sender = "u1" /\ tasks[i].msgId = 1
            /\ tasks[i].pc = "um_gen" => tasks[i].gens = 1 /\ genCalls[1] = 1
            /\ tasks[i].genResult = "text" =>
                 /\ tasks[i].reply \in ReplyTexts /\ tasks[i].gens = 1
                 /\ tasks[i].sends > 0 => tasks[i].sentText = tasks[i].reply
            /\ tasks[i].outcome \in {"sent", "send_failed"} =>
                 tasks[i].sends = 1 /\ sendCalls[1] = 1 /\ tasks[i].genResult = "text"
            /\ ~tasks[i].accepted =>
                 /\ tasks[i].gens = 0 /\ tasks[i].sends = 0
                 /\ tasks[i].pc = "hn_cfg" \/ tasks[i].outcome \in {"repeat", "caught"}

C17_Witness ==
  \E i, j \in Slots :
    /\ sessionId = 1
    /\ IsNotification(i) /\ tasks[i].outcome = "sent" /\ tasks[i].text = "hi"
    /\ tasks[i].reply = "hello!" /\ tasks[i].sentText = "hello!" /\ tasks[i].sends = 1
    /\ IsNotification(j) /\ tasks[j].outcome = "repeat" /\ tasks[j].msgId = tasks[i].msgId
    /\ genCalls[1] = 1 /\ sendCalls[1] = 1

\* C18: guard, dedup check and record run in the same step as the arrival of
\* the notification frame: while an invocation of handleNotification has yet to
\* reach its guard, no step handles another frame - the next change to any
\* invocation is this one's own.
C18_GuardAndRecordOnArrival ==
  [][(tasks' # tasks /\ \E i \in Slots : tasks[i].pc = "hn_cfg")
       => \E i \in Slots :
            /\ tasks[i].pc = "hn_cfg" /\ tasks'[i].pc # "hn_cfg"
            /\ \A j \in Slots \ {i} : tasks'[j] = tasks[j]]_vars

\* C19: the ledger changes only by recording an id it does not hold, at its
\* end; when it is full, the entry that goes is its first - the one inserted
\* earliest - and the others keep their order; a notification dropped as a
\* repeat leaves the ledger as it is, the position of its id included.
C19_EvictionIsFIFO ==
  [][/\ ledger' # ledger =>
          \E id \in Range(ledger') \ Range(ledger) :
            ledger' = IF Len(ledger) < LedgerCapacity
                        THEN Append(ledger, id)
                        ELSE Append(Tail(ledger), id)
     /\ \A i \in Slots :
          (tasks[i].pc = "hn_cfg" /\ tasks'[i].outcome = "repeat")
            => /\ ledger' = ledger
               /\ Seen(ledger, tasks[i].msgId)]_vars

C19_Witness ==
  \E i \in Slots :
    /\ IsNotification(i) /\ tasks[i].outcome = "repeat"
    /\ tasks[i].msgId = LedgerId(1)
    /\ Len(ledger) = LedgerCapacity
    /\ ledger = [k \in 1..LedgerCapacity |-> LedgerId(k)]

\* C20: the empty message id is never in the Dedup Ledger, and a notification
\* without a message id from a sender other than the bot is never dropped as a
\* repeat: once past the guard it is in the pipeline, however many of them
\* arrive and whatever the ledger holds.
C20_EmptyIdNeverDeduplicated ==
  /\ ~Seen(ledger, EmptyId)
  /\ \A i \in Slots :
       (IsNotification(i) /\ tasks[i].msgId = EmptyId /\ ~IsSelf(tasks[i].sender))
         => /\ tasks[i].outcome # "repeat" /\ tasks[i].outcome # "self"
            /\ tasks[i].accepted
                 \/ tasks[i].pc = "hn_cfg"
                 \/ (tasks[i].outcome = "caught" /\ tasks[i].gens = 0)

C20_Witness ==
  \E i, j \in Slots :
    /\ i # j
    /\ IsNotification(i) /\ tasks[i].msgId = EmptyId /\ tasks[i].accepted
    /\ IsNotification(j) /\ tasks[j].msgId = EmptyId /\ tasks[j].accepted
    /\ tasks[i].gens = 1 /\ tasks[j].gens = 1
    /\ ledger # <<>>

\* C21: a keepalive frame, and a frame whose message type the router does not
\* know, change nothing: the step that handles it leaves session id, ledger,
\* handle, sockets, the call counts and every other invocation as they are, and
\* its own invocation ends at once, having made no subscription POST, no
\* generator call and no send.
C21_KeepaliveAndUnknownChangeNothing ==
  /\ [](\A i \in Slots :
          tasks[i].kind \in {"session_keepalive", "session_reconnect", "scalar"}
            => /\ Done(i) /\ tasks[i].outcome \in {"keepalive", "unhandled"}
               /\ tasks[i].outcome = "keepalive" <=> tasks[i].kind = "session_keepalive"
               /\ tasks[i].posts = 0 /\ tasks[i].gens = 0 /\ tasks[i].sends = 0
               /\ ~tasks[i].accepted)
  /\ [][\A i \in Slots :
          (tasks'[i] # tasks[i]
             /\ tasks'[i].kind \in {"session_keepalive", "session_reconnect", "scalar"})
            => /\ UNCHANGED <<ws, sock, sessionId, ledger, genCalls, sendCalls>>
               /\ \A j \in Slots \ {i} : tasks'[j] = tasks[j]]_vars

C21_Witness ==
  \E i, j \in Slots :
    /\ tasks[i].kind = "session_keepalive" /\ tasks[i].outcome = "keepalive"
    /\ tasks[j].kind = "session_reconnect" /\ tasks[j].outcome = "unhandled"
    /\ sessionId # Absent /\ ledger # <<>> /\ ws # 0

\* C22: the session id is absent at first; the step in which a welcome frame
\* arrives sets it to that frame's session id and starts one subscription
\* attempt for the frame - suspended before its POST, or, for a frame without a
\* session id, ended at once by the missing-id error; the arrival of a frame of
\* any other kind leaves the session id as it is, so the session id is always
\* the id of the welcome frame handled last.
C22_SessionIdFollowsWelcome ==
  /\ sessionId = Absent
  /\ [][\A i \in Slots :
          (IsWelcome(i)' /\ tasks'[i] # tasks[i] /\ ~InFlight(i))
            => /\ sessionId' = tasks'[i].sid
               /\ tasks'[i].posts = 0
               /\ IF tasks'[i].sid = Absent
                    THEN tasks'[i].pc = "done" /\ tasks'[i].outcome = "uncaught"
                    ELSE tasks'[i].pc = "sub_cfg"]_vars
  /\ [][\A i \in Slots :
          (~IsWelcome(i)' /\ tasks'[i] # tasks[i] /\ ~InFlight(i))
            => sessionId' = sessionId]_vars

C22_Witness ==
  \E i, j \in Slots :
    /\ IsWelcome(i) /\ tasks[i].sid = 1 /\ tasks[i].outcome = "subscribed"
    /\ IsWelcome(j) /\ tasks[j].sid = 2 /\ tasks[j].pc = "sub_fetch"
    /\ tasks[j].bodySid = 2 /\ tasks[i].bodySid = 1
    /\ sessionId = 2

\* C23: in an invocation of the pipeline the inbound message is marked processed
\* only after a generation that gave a non-empty text, processActions is called
\* only after that, evaluate only after processActions has completed, and the
\* Outbound Sender posts only after evaluate has completed, each at most once;
\* while a hook is pending nothing has been sent, and when a hook throws the
\* invocation ends without a send.
C23_PipelineOrder ==
  /\ [](\A i \in Slots :
          /\ tasks[i].processed => tasks[i].genResult = "text" /\ tasks[i].gens = 1
          /\ tasks[i].acts > 0 => tasks[i].acts = 1 /\ tasks[i].processed
          /\ tasks[i].evals > 0 => tasks[i].evals = 1 /\ tasks[i].acts = 1
          /\ tasks[i].sends > 0 => tasks[i].evals = 1 /\ tasks[i].acts = 1
          /\ tasks[i].pc = "um_actions" => tasks[i].evals = 0 /\ tasks[i].sends = 0
          /\ tasks[i].pc = "um_eval" => tasks[i].sends = 0
          /\ (Done(i) /\ tasks[i].evals = 0) => tasks[i].sends = 0)
  /\ [][\A i \in Slots :
          (tasks[i].pc \in {"um_actions", "um_eval"} /\ tasks'[i].outcome = "caught")
            => tasks'[i].pc = "done" /\ tasks'[i].sends = 0]_vars

C23_Witness ==
  \E i, j \in Slots :
    /\ tasks[i].outcome = "sent" /\ tasks[i].processed
    /\ tasks[i].acts = 1 /\ tasks[i].evals = 1 /\ tasks[i].sends = 1
    /\ tasks[j].outcome = "caught" /\ tasks[j].processed
    /\ tasks[j].acts = 1 /\ tasks[j].evals = 0 /\ tasks[j].sends = 0

\* C24: a close event or a call of stop() changes nothing of an invocation in
\* flight, and with the handle cleared the pipeline of a notification can still
\* take its next step: it goes on through generation, hooks and send, and posts
\* the reply with the transport gone.
C24_NoCancellation ==
  /\ [][(ws' # ws \/ sock' # sock)
          => UNCHANGED <<tasks, genCalls, sendCalls, ledger, sessionId>>]_vars
  /\ [](\A j \in Slots :
          (IsNotification(j) /\ InFlight(j) /\ ws = 0) => ENABLED PipelineStep(j))
  /\ [](\A j \in Slots : tasks[j].sentOffline => tasks[j].sends = 1)

C24_Witness ==
  \E i \in Slots :
    /\ IsNotification(i) /\ tasks[i].outcome = "sent"
    /\ tasks[i].sends = 1 /\ tasks[i].sentOffline
    /\ tasks[i].sentText \in ReplyTexts
    /\ ws = 0 /\ ~Connected

\* C25: the guard comes before the dedup step: the step that drops a
\* notification of the bot leaves the ledger as it is, and the ledger changes
\* only in the step that accepts a notification of another sender, by that
\* notification's id; so an id the bot has used is not in the ledger on that
\* account, and a notification of another sender with that id, whose id the
\* ledger does not hold, is accepted.
C25_SelfNotRecorded ==
  /\ [][\A i \in Slots :
          (tasks[i].pc = "hn_cfg" /\ tasks'[i].outcome = "self")
            => ledger' = ledger /\ tasks[i].sender = BotUserId]_vars
  /\ [][ledger' # ledger =>
          \E i \in Slots :
            /\ tasks[i].pc = "hn_cfg" /\ tasks'[i].accepted
            /\ tasks[i].sender # BotUserId /\ tasks[i].msgId # EmptyId
            /\ ledger' = Record(ledger, tasks[i].msgId)]_vars
  /\ [][\A i \in Slots :
          (tasks[i].pc = "hn_cfg" /\ tasks'[i].pc # "hn_cfg"
             /\ tasks'[i].outcome # "caught"
             /\ tasks[i].sender # BotUserId /\ ~Seen(ledger, tasks[i].msgId))
            => tasks'[i].accepted /\ tasks'[i].pc = "um_cfg"]_vars

C25_Witness ==
  \E i, j \in Slots, m \in TrackedIds :
    /\ IsNotification(i) /\ tasks[i].msgId = m /\ tasks[i].sender = BotUserId
    /\ tasks[i].outcome = "self"
    /\ IsNotification(j) /\ tasks[j].msgId = m /\ tasks[j].sender # BotUserId
    /\ tasks[j].accepted /\ tasks[j].gens = 1
    /\ genCalls[m] = 1

\* C26: the session id changes only in the step in which a welcome frame
\* arrives, and to that frame's id: a close event, a transport error, stop(),
\* a frame of another kind, a step of a pipeline or of a subscription, and a
\* failed subscription all leave it as it is.
C26_OnlyWelcomeWritesSessionId ==
  /\ [][sessionId' # sessionId =>
          \E i \in Slots :
            /\ ~InFlight(i) /\ IsWelcome(i)' /\ tasks'[i].sid = sessionId'
            /\ tasks'[i].posts = 0 /\ tasks'[i].pc \in {"sub_cfg", "done"}]_vars
  /\ [][(ws' # ws \/ sock' # sock \/ \E i \in Slots : InFlight(i) /\ tasks'[i] # tasks[i])
          => sessionId' = sessionId]_vars

C26_Witness ==
  \E i \in Slots :
    /\ IsWelcome(i) /\ tasks[i].resp = "non_ok" /\ tasks[i].outcome = "uncaught"
    /\ sessionId = tasks[i].sid /\ sessionId # Absent
    /\ ws = 0 /\ sock[1] = "closed"

\* C27: a notification of another sender whose id the ledger does not hold -
\* never recorded, or recorded and evicted since - is accepted when it reaches
\* the dedup step, and its id becomes the newest entry; an accepted notification
\* can go on to the generator, and has invoked it once when it is past that
\* point; and the generator is invoked a second time for an id only when the
\* ledger has filled up in between.
C27_EvictedIdAcceptedAgain ==
  /\ [][\A i \in Slots :
          (tasks[i].pc = "hn_cfg" /\ tasks'[i].pc # "hn_cfg"
             /\ tasks'[i].outcome # "caught"
             /\ ~IsSelf(tasks[i].sender) /\ tasks[i].msgId # EmptyId
             /\ ~Seen(ledger, tasks[i].msgId))
            => /\ tasks'[i].accepted
               /\ ledger' # <<>> /\ ledger'[Len(ledger')] = tasks[i].msgId]_vars
  /\ [](\A i \in Slots :
          tasks[i].accepted =>
            /\ tasks[i].pc = "um_cfg" => ENABLED CreateUserMemory(i)
            /\ tasks[i].pc = "um_mem" => ENABLED InvokeGenerator(i)
            /\ (tasks[i].pc \notin {"um_cfg", "um_mem"} /\ tasks[i].outcome # "caught")
                 => tasks[i].gens = 1)
  /\ [](genCalls[LedgerId(1)] = 2 =>
          Len(ledger) = LedgerCapacity /\ ledger[1] # LedgerId(1))

C27_Witness ==
  \E i \in Slots :
    /\ IsNotification(i) /\ tasks[i].msgId = LedgerId(1)
    /\ tasks[i].accepted /\ tasks[i].gens = 1
    /\ genCalls[LedgerId(1)] = 2
    /\ Len(ledger) = LedgerCapacity
    /\ ledger[1] = LedgerId(3) /\ ledger[LedgerCapacity] = LedgerId(1)

\* C28: stop() with a connection closes the socket the handle refers to - an
\* open one, never one that is closing or closed already - and clears the
\* handle; stop() without a handle (never started, stopped or closed before)
\* changes nothing at all; in both cases the session id, the ledger and the
\* invocations are left as they are.
C28_StopIdempotent ==
  /\ [](ws # 0 => sock[ws] = "open")
  /\ [][Stop =>
          /\ ws' = 0
          /\ sock' = IF ws = 0 THEN sock ELSE [sock EXCEPT ![ws] = "closing"]
          /\ UNCHANGED <<sessionId, ledger, tasks, genCalls, sendCalls>>]_vars
  /\ [](ws = 0 => ~ENABLED (Stop /\ vars' # vars))

C28_Witness ==
  /\ ws = 0 /\ sock[1] = "closing"
  /\ sessionId # Absent /\ ledger # <<>>
  /\ \E i \in Slots : IsNotification(i) /\ InFlight(i)

====
